---- MODULE Spec2Model ----
(***************************************************************************)
(* Model of twif: the frame-aligned streaming buffer (src/src/stream.rs)   *)
(* and the session orchestration of start_stream (src/src/main.rs).        *)
(*                                                                         *)
(* Bytes are abstract symbols.  The gif decoder is an external crate; it   *)
(* is modelled by what its interface promises (update returns the number   *)
(* of bytes consumed and at most one event), with one symbol per kind of   *)
(* outcome:                                                                *)
(*   "x"  a byte that completes no event (consumed, reported as Nothing    *)
(*        when the buffer runs out)                                        *)
(*   "m"  completes a pre-frame metadata event (the `_` arm of consume)    *)
(*   "b"  completes a frame-interior event (BlockStart .. Data)            *)
(*   "e"  completes the frame terminator (DataEnd)                         *)
(*   "w"  a byte the decoder consumes only when another byte follows it    *)
(*        in the same buffer (it needs more input to make progress)        *)
(*   "t"  the trailer: consumed, after which the decoder consumes nothing  *)
(*   "q"  a malformed byte: update returns a decoding error                *)
(* Sizes are scaled: BufSize stands for the 8 KiB read buffer, cap for the *)
(* 1 MiB eviction cap; the scaling keeps BufSize < cap.                    *)
(***************************************************************************)
EXTENDS Integers, Sequences, FiniteSets, TLC

\* ------------------------------------------------------------------ bounds
MaxInput == 5
MaxCap == 4
BufSize == 2

MaxRead == 4
MaxAhead == 2

Byte == {"x", "m", "b", "e", "w", "t", "q"}
\* what the transcoder may emit in a session
SessionByte == {"x", "m", "e", "w", "q"}
CapValues == (BufSize + 1)..MaxCap

VARIABLES
    stream,     \* the Stream struct
    cap,        \* the eviction cap of finish_frame (1024*1024 in the source)
    input,      \* history: every byte handed to write so far, in order
    status,     \* outcome of the last write: "ok", "err" (Err returned), "hung" (never returns)
    \* the copy future of start_stream
    copyPc,     \* "read" (at child_output.read), "drain" (at read_after), "done", "hung" (inside write)
    copyResult, \* "none" while running, then "ok" or "err"
    copyOffset, \* the copy future's cursor (`offset` in copy_from_ffmpeg_to_client)
    sent,       \* history: the bytes of every chunk send_data accepted, in order
    sendFailed, \* history: a send_data call has returned Err
    eofSeen,    \* history: a read has returned 0
    tick,       \* history: parity of the number of reads that returned 0
    \* the spawned session task
    taskPc,     \* "select", "kill", "await_child", "await_copy", "done"
    taskResult, \* "none" while running, then "ok" or "err"
    winner,     \* history: the select branch taken, "none", "copy" or "child"
    \* the transcoder process and the client
    child,      \* "running", "exited" (not yet waited for), "reaped"
    killed,     \* history: child.kill() has been called
    outOpen,    \* the transcoder's stdout can still deliver data
    clientGone  \* the receiving end of the body channel is closed

bufVars == <<stream, cap, input, status>>
copyVars == <<copyPc, copyResult, copyOffset, sent, sendFailed, eofSeen, tick>>
taskVars == <<taskPc, taskResult, winner>>
envVars == <<child, killed, outOpen, clientGone>>
vars == <<bufVars, copyVars, taskVars, envVars>>

\* ------------------------------------------------------------------ helpers
Drop(s, n) == SubSeq(s, n + 1, Len(s))
Take(s, n) == SubSeq(s, 1, n)

RECURSIVE SumLen(_)
SumLen(fs) == IF fs = <<>> THEN 0 ELSE Len(fs[1].data) + SumLen(Tail(fs))

RECURSIVE Flatten(_)
Flatten(fs) == IF fs = <<>> THEN <<>> ELSE fs[1].data \o Flatten(Tail(fs))

SeqsUpTo(S, n) == UNION {[1..k -> S] : k \in 1..n}

\* ------------------------------------------------------------------ decoder
\* gif::StreamingDecoder::update: scans buf; returns at the first event with the
\* bytes consumed up to and including it, or Nothing with what it consumed.
\* Stops(buf): the positions the scan cannot pass silently.
Stops(buf) ==
    {i \in 1..Len(buf) : buf[i] \notin {"x", "w"} \/ (buf[i] = "w" /\ i = Len(buf))}

Scan(buf) ==
    IF Stops(buf) = {} THEN [n |-> Len(buf), ev |-> "Nothing", dec |-> "run"]
    ELSE LET k == CHOOSE i \in Stops(buf) : \A j \in Stops(buf) : i <= j
             c == buf[k]
         IN CASE c = "w" -> [n |-> k - 1, ev |-> "Nothing", dec |-> "run"]
              [] c = "m" -> [n |-> k, ev |-> "Meta", dec |-> "run"]
              [] c = "b" -> [n |-> k, ev |-> "Block", dec |-> "run"]
              [] c = "e" -> [n |-> k, ev |-> "DataEnd", dec |-> "run"]
              [] c = "t" -> [n |-> k, ev |-> "Nothing", dec |-> "end"]
              [] OTHER   -> [n |-> 0, ev |-> "Error", dec |-> "run"]

update(dec, buf) ==
    IF dec = "end" THEN [n |-> 0, ev |-> "Nothing", dec |-> "end"]
    ELSE Scan(buf)

\* ------------------------------------------------------------------ Stream
\* Stream::new.  `finished` is a history field: every Blob finish_frame ever made.
\* `eaten` is a history field too: the bytes the decoder consumed, over all update calls.
new ==
    [preamble |-> <<>>, frames |-> <<>>, offset |-> 0, partial_frame |-> <<>>,
     decoder |-> "run", undecoded |-> <<>>, decoded |-> <<>>, finished |-> <<>>,
     eaten |-> 0]

\* mutant: a late preamble event is dropped but its bytes are still counted
add_to_preamble_counts_late(s, data) ==
    IF Len(s.frames) > 0 \/ Len(s.partial_frame) > 0
    THEN [s EXCEPT !.offset = @ + Len(data)]
    ELSE [s EXCEPT !.partial_frame = @ \o s.decoded,
                   !.decoded = <<>>,
                   !.preamble = @ \o data,
                   !.offset = @ + Len(data)]

\* mutant: a metadata event is taken as preamble whenever it arrives
add_to_preamble_unguarded(s, data) ==
    [s EXCEPT !.partial_frame = @ \o s.decoded,
              !.decoded = <<>>,
              !.preamble = @ \o data,
              !.offset = @ + Len(data)]

add_to_preamble(s, data) ==
    IF Len(s.frames) > 0 \/ Len(s.partial_frame) > 0
    THEN s
    ELSE [s EXCEPT !.partial_frame = @ \o s.decoded,
                   !.decoded = <<>>,
                   !.preamble = @ \o data,
                   !.offset = @ + Len(data)]

add_to_frame(s, data) ==
    [s EXCEPT !.partial_frame = @ \o s.decoded \o data,
              !.decoded = <<>>]

\* mutant: frames are dropped until the retained bytes fit the cap
RECURSIVE evict_to_fit(_, _)
evict_to_fit(frames, c) ==
    IF frames = <<>> \/ SumLen(frames) <= c
    THEN frames
    ELSE evict_to_fit(Tail(frames), c)

\* the eviction loop of finish_frame
RECURSIVE evict(_, _)
evict(frames, c) ==
    IF frames[Len(frames)].offset - frames[1].offset < c
    THEN frames
    ELSE evict(Tail(frames), c)

\* mutant: the Blob records the cursor after it moved past the frame
finish_frame_end_offset(s) ==
    LET blob == [offset |-> s.offset + Len(s.partial_frame), data |-> s.partial_frame]
    IN [s EXCEPT !.partial_frame = <<>>,
                 !.offset = @ + Len(blob.data),
                 !.frames = evict(Append(@, blob), cap),
                 !.finished = Append(@, blob)]

finish_frame(s) ==
    LET blob == [offset |-> s.offset, data |-> s.partial_frame]
    IN [s EXCEPT !.partial_frame = <<>>,
                 !.offset = @ + Len(blob.data),
                 !.frames = evict(Append(@, blob), cap),
                 !.finished = Append(@, blob)]

\* Stream::consume: calls update until it reports Nothing; `?` leaves on an error
RECURSIVE consume(_, _, _)
consume(s, data, consumed) ==
    LET r == update(s.decoder, data)
        s1 == [s EXCEPT !.decoder = r.dec, !.eaten = @ + r.n]
        pre == Take(data, r.n)
        rest == Drop(data, r.n)
    IN CASE r.ev = "Error" -> [s |-> s, n |-> consumed, err |-> TRUE]
         [] r.ev = "Nothing" ->
                [s |-> [s1 EXCEPT !.decoded = @ \o pre], n |-> consumed + r.n, err |-> FALSE]
         [] r.ev = "Block" -> consume(add_to_frame(s1, pre), rest, consumed + r.n)
         [] r.ev = "DataEnd" ->
                consume(finish_frame(add_to_frame(s1, pre)), rest, consumed + r.n)
         [] OTHER -> consume(add_to_preamble(s1, pre), rest, consumed + r.n)

\* write, undecoded empty: consume, advance past what it consumed, until it consumes 0
RECURSIVE write_fresh(_, _)
write_fresh(s, data) ==
    LET c == consume(s, data, 0)
    IN IF c.err THEN [s |-> c.s, st |-> "err"]
       ELSE IF c.n = 0 THEN [s |-> [c.s EXCEPT !.undecoded = @ \o data], st |-> "ok"]
       ELSE write_fresh(c.s, Drop(data, c.n))

\* write, undecoded non-empty: the loop calls consume on the same slice each time.
\* consume's result depends only on the decoder and the slice, so when a call
\* consumed something and left the decoder as it was, every later call does the
\* same and the loop never ends.
RECURSIVE write_carry(_, _)
write_carry(s, data) ==
    LET c == consume(s, data, 0)
    IN IF c.err THEN [s |-> c.s, st |-> "err"]
       ELSE IF c.n = 0 THEN [s |-> [c.s EXCEPT !.undecoded = @ \o data], st |-> "ok"]
       ELSE IF c.s.decoder = s.decoder THEN [s |-> c.s, st |-> "hung"]
       ELSE write_carry(c.s, data)

write(s, data) ==
    IF Len(s.undecoded) = 0
    THEN write_fresh(s, data)
    ELSE write_carry([s EXCEPT !.undecoded = <<>>], s.undecoded \o data)

\* mutant: the frame found is returned whole, not from the caller's offset on
RECURSIVE scan_frames_whole(_, _, _)
scan_frames_whole(s, offset, i) ==
    IF i = 0
    THEN IF Len(s.frames) > 0
         THEN [new_offset |-> s.frames[1].offset + Len(s.frames[1].data),
               data |-> s.frames[1].data]
         ELSE [new_offset |-> offset, data |-> <<>>]
    ELSE LET frame == s.frames[i]
             end == frame.offset + Len(frame.data)
         IN IF offset < frame.offset THEN scan_frames_whole(s, offset, i - 1)
            ELSE IF offset >= end THEN [new_offset |-> offset, data |-> <<>>]
            ELSE [new_offset |-> end, data |-> frame.data]

\* mutant: a frame that starts exactly at the caller's offset is passed over
RECURSIVE scan_frames_strict(_, _, _)
scan_frames_strict(s, offset, i) ==
    IF i = 0
    THEN IF Len(s.frames) > 0
         THEN [new_offset |-> s.frames[1].offset + Len(s.frames[1].data),
               data |-> s.frames[1].data]
         ELSE [new_offset |-> offset, data |-> <<>>]
    ELSE LET frame == s.frames[i]
             end == frame.offset + Len(frame.data)
         IN IF offset <= frame.offset THEN scan_frames_strict(s, offset, i - 1)
            ELSE IF offset >= end THEN [new_offset |-> offset, data |-> <<>>]
            ELSE [new_offset |-> end, data |-> Drop(frame.data, offset - frame.offset)]

\* mutant: with no frame at or before the caller's offset, the newest frame is shipped
RECURSIVE scan_frames_newest(_, _, _)
scan_frames_newest(s, offset, i) ==
    IF i = 0
    THEN IF Len(s.frames) > 0
         THEN [new_offset |-> s.frames[Len(s.frames)].offset + Len(s.frames[Len(s.frames)].data),
               data |-> s.frames[Len(s.frames)].data]
         ELSE [new_offset |-> offset, data |-> <<>>]
    ELSE LET frame == s.frames[i]
             end == frame.offset + Len(frame.data)
         IN IF offset < frame.offset THEN scan_frames_newest(s, offset, i - 1)
            ELSE IF offset >= end THEN [new_offset |-> offset, data |-> <<>>]
            ELSE [new_offset |-> end, data |-> Drop(frame.data, offset - frame.offset)]

\* mutant: a frame with one byte left for the caller counts as already read
RECURSIVE scan_frames_early(_, _, _)
scan_frames_early(s, offset, i) ==
    IF i = 0
    THEN IF Len(s.frames) > 0
         THEN [new_offset |-> s.frames[1].offset + Len(s.frames[1].data),
               data |-> s.frames[1].data]
         ELSE [new_offset |-> offset, data |-> <<>>]
    ELSE LET frame == s.frames[i]
             end == frame.offset + Len(frame.data)
         IN IF offset < frame.offset THEN scan_frames_early(s, offset, i - 1)
            ELSE IF offset >= end - 1 THEN [new_offset |-> offset, data |-> <<>>]
            ELSE [new_offset |-> end, data |-> Drop(frame.data, offset - frame.offset)]

\* Stream::read_after: the reverse scan over the frames, i from newest to oldest
RECURSIVE scan_frames(_, _, _)
scan_frames(s, offset, i) ==
    IF i = 0
    THEN IF Len(s.frames) > 0
         THEN [new_offset |-> s.frames[1].offset + Len(s.frames[1].data),
               data |-> s.frames[1].data]
         ELSE [new_offset |-> offset, data |-> <<>>]
    ELSE LET frame == s.frames[i]
             end == frame.offset + Len(frame.data)
         IN IF offset < frame.offset THEN scan_frames(s, offset, i - 1)
            ELSE IF offset >= end THEN [new_offset |-> offset, data |-> <<>>]
            ELSE [new_offset |-> end, data |-> Drop(frame.data, offset - frame.offset)]

\* mutant: a cursor past the end is pulled back to the stream's cursor
read_after_clamped(s, offset) ==
    IF offset >= s.offset THEN [new_offset |-> s.offset, data |-> <<>>]
    ELSE IF offset < Len(s.preamble)
         THEN [new_offset |-> Len(s.preamble), data |-> Drop(s.preamble, offset)]
    ELSE scan_frames(s, offset, Len(s.frames))

read_after(s, offset) ==
    IF offset >= s.offset THEN [new_offset |-> offset, data |-> <<>>]
    ELSE IF offset < Len(s.preamble)
         THEN [new_offset |-> Len(s.preamble), data |-> Drop(s.preamble, offset)]
    ELSE scan_frames(s, offset, Len(s.frames))

\* ------------------------------------------------------------------ buffer specification
\* Any caller of the Stream API: writes of non-empty chunks of at most BufSize bytes.
Init ==
    /\ stream = new
    /\ cap \in CapValues
    /\ input = <<>>
    /\ status = "ok"
    /\ copyPc = "read" /\ copyResult = "none" /\ copyOffset = 0 /\ sent = <<>>
    /\ sendFailed = FALSE /\ eofSeen = FALSE /\ tick = 0
    /\ taskPc = "select" /\ taskResult = "none" /\ winner = "none"
    /\ child = "running" /\ killed = FALSE /\ outOpen = TRUE /\ clientGone = FALSE

\* A write that never returns leaves status "hung"; the Stream is then never
\* observed again, so its fields are kept as they were at the call.
Write ==
    /\ status = "ok"
    /\ \E chunk \in SeqsUpTo(Byte, BufSize) :
          /\ Len(input) + Len(chunk) <= MaxInput
          /\ LET r == write(stream, chunk)
             IN /\ status' = r.st
                /\ stream' = IF r.st = "hung" THEN stream ELSE r.s
          /\ input' = input \o chunk
    /\ UNCHANGED <<cap, copyVars, taskVars, envVars>>

Next == Write

Spec == Init /\ [][Next]_vars

\* ------------------------------------------------------------------ session specification
\* start_stream: the copy future and the spawned task that selects over it and the child.

\* The copy future runs only while the task polls it: in select!, or awaited after
\* the child branch was taken.
CopyPolled == taskPc \in {"select", "await_copy"}

\* The copy future returns `res`.  Inside select! its branch is taken in the same
\* poll; awaited after the child branch, the task ends with its result.
CopyEnds(res) ==
    /\ copyPc' = "done"
    /\ copyResult' = res
    /\ IF taskPc = "select"
       THEN taskPc' = "kill" /\ winner' = "copy" /\ taskResult' = taskResult
       ELSE taskPc' = "done" /\ winner' = winner /\ taskResult' = res

\* read returns n > 0 bytes, write is called on them
ReadData ==
    /\ copyPc = "read" /\ CopyPolled /\ outOpen
    /\ \E chunk \in SeqsUpTo(SessionByte, BufSize) :
          /\ Len(input) + Len(chunk) <= MaxRead
          /\ input' = input \o chunk
          /\ LET r == write(stream, chunk)
             IN /\ status' = r.st
                /\ stream' = IF r.st = "hung" THEN stream ELSE r.s
                /\ CASE r.st = "ok" ->
                            /\ copyPc' = "drain"
                            /\ UNCHANGED <<copyResult, taskVars>>
                     [] r.st = "err" -> CopyEnds("err")
                     [] OTHER ->
                            /\ copyPc' = "hung"
                            /\ UNCHANGED <<copyResult, taskVars>>
    /\ UNCHANGED <<cap, copyOffset, sent, sendFailed, eofSeen, tick, envVars>>

\* read returns 0: `if n <= 0 { continue; }`
ReadEof ==
    /\ copyPc = "read" /\ CopyPolled /\ ~outOpen
    /\ eofSeen' = TRUE
    /\ tick' = 1 - tick
    /\ UNCHANGED <<bufVars, copyPc, copyResult, copyOffset, sent, sendFailed, taskVars, envVars>>

\* read returns Err
ReadErr ==
    /\ copyPc = "read" /\ CopyPolled
    /\ CopyEnds("err")
    /\ UNCHANGED <<bufVars, copyOffset, sent, sendFailed, eofSeen, tick, envVars>>

\* read_after brings nothing new: leave the inner loop
DrainBreak ==
    /\ copyPc = "drain" /\ CopyPolled
    /\ copyOffset >= read_after(stream, copyOffset).new_offset
    /\ copyPc' = "read"
    /\ UNCHANGED <<bufVars, copyResult, copyOffset, sent, sendFailed, eofSeen, tick, taskVars, envVars>>

\* mutant: everything from the cursor on is sent as one chunk
DrainSend_batch ==
    /\ copyPc = "drain" /\ CopyPolled /\ ~clientGone
    /\ copyOffset < stream.offset
    /\ copyOffset' = stream.offset
    /\ sent' = sent \o Drop(stream.preamble \o Flatten(stream.finished), copyOffset)
    /\ UNCHANGED <<bufVars, copyPc, copyResult, sendFailed, eofSeen, tick, taskVars, envVars>>

\* read_after returns a chunk and send_data accepts it
DrainSend ==
    /\ copyPc = "drain" /\ CopyPolled /\ ~clientGone
    /\ LET r == read_after(stream, copyOffset)
       IN /\ copyOffset < r.new_offset
          /\ copyOffset' = r.new_offset
          /\ sent' = sent \o r.data
    /\ UNCHANGED <<bufVars, copyPc, copyResult, sendFailed, eofSeen, tick, taskVars, envVars>>

\* mutant: the result of send_data is ignored and the loop goes on
DrainSendFail_ignored ==
    /\ copyPc = "drain" /\ CopyPolled /\ clientGone
    /\ LET r == read_after(stream, copyOffset)
       IN /\ copyOffset < r.new_offset
          /\ copyOffset' = r.new_offset
    /\ sendFailed' = TRUE
    /\ UNCHANGED <<bufVars, copyPc, copyResult, sent, eofSeen, tick, taskVars, envVars>>

\* read_after returns a chunk and send_data fails
DrainSendFail ==
    /\ copyPc = "drain" /\ CopyPolled /\ clientGone
    /\ LET r == read_after(stream, copyOffset)
       IN /\ copyOffset < r.new_offset
          /\ copyOffset' = r.new_offset
    /\ sendFailed' = TRUE
    /\ CopyEnds("err")
    /\ UNCHANGED <<bufVars, sent, eofSeen, tick, envVars>>

\* select!, child branch: the process exit is observed first
\* mutant: the child branch signals the transcoder as well
SelectChild_kills ==
    /\ taskPc = "select" /\ copyPc \in {"read", "drain"}
    /\ child = "exited"
    /\ child' = "reaped"
    /\ killed' = TRUE
    /\ winner' = "child"
    /\ taskPc' = "await_copy"
    /\ UNCHANGED <<bufVars, copyVars, taskResult, outOpen, clientGone>>

SelectChild ==
    /\ taskPc = "select" /\ copyPc \in {"read", "drain"}
    /\ child = "exited"
    /\ child' = "reaped"
    /\ winner' = "child"
    /\ taskPc' = "await_copy"
    /\ UNCHANGED <<bufVars, copyVars, taskResult, killed, outOpen, clientGone>>

\* select!, copy branch: child.kill()
TaskKill ==
    /\ taskPc = "kill"
    /\ killed' = TRUE
    /\ taskPc' = "await_child"
    /\ UNCHANGED <<bufVars, copyVars, taskResult, winner, child, outOpen, clientGone>>

\* mutant: the task signals the child and finishes without waiting for its exit
TaskAwaitChild_detached ==
    /\ taskPc = "await_child"
    /\ taskPc' = "done"
    /\ taskResult' = "ok"
    /\ UNCHANGED <<bufVars, copyVars, winner, envVars>>

\* select!, copy branch: child.await
TaskAwaitChild ==
    /\ taskPc = "await_child"
    /\ child = "exited"
    /\ child' = "reaped"
    /\ taskPc' = "done"
    /\ taskResult' = "ok"
    /\ UNCHANGED <<bufVars, copyVars, winner, killed, outOpen, clientGone>>

\* the transcoder exits, by itself or because it was killed
ChildExit ==
    /\ child = "running"
    /\ child' = "exited"
    /\ UNCHANGED <<bufVars, copyVars, taskVars, killed, outOpen, clientGone>>

\* the transcoder's stdout is closed and the pipe is empty
OutputClose ==
    /\ outOpen
    /\ outOpen' = FALSE
    /\ UNCHANGED <<bufVars, copyVars, taskVars, child, killed, clientGone>>

\* the client goes away: later sends fail
ClientDisconnect ==
    /\ ~clientGone
    /\ clientGone' = TRUE
    /\ UNCHANGED <<bufVars, copyVars, taskVars, child, killed, outOpen>>

CopyStep == ReadData \/ ReadEof \/ ReadErr \/ DrainBreak \/ DrainSend \/ DrainSendFail
TaskStep == SelectChild \/ TaskKill \/ TaskAwaitChild
EnvStep == ChildExit \/ OutputClose \/ ClientDisconnect

SessionNext == CopyStep \/ TaskStep \/ EnvStep

SessionSpec == Init /\ [][SessionNext]_vars

\* The runtime keeps polling a task that can make progress, a read of a closed
\* pipe returns, and a killed process exits.  Nothing obliges the transcoder to
\* produce data, to fail or to exit by itself, nor the client to leave.
Fairness ==
    /\ WF_vars(ReadEof \/ DrainBreak \/ DrainSend \/ DrainSendFail)
    /\ WF_vars(TaskStep)
    /\ WF_vars(ChildExit /\ killed)

FairSessionSpec == Init /\ [][SessionNext]_vars /\ Fairness

\* ------------------------------------------------------------------ scenario specification
\* The scenario of spec.md section 8: a 10-byte preamble, then frames of 100, 200
\* and 50 bytes, with the cap at 250.  The preamble is one metadata event, each
\* frame ends with its terminator.  The bytes are written in chunks of the sizes
\* in ScenarioChunks.  ScenarioSpec adds these runs to those of Spec.
Scenario == [cap |-> 250, preamble |-> 10, frames |-> <<100, 200, 50>>]
ScenarioChunks == {1, 7, 10, 50, 100, 250, 360}

Run(n, last) == [i \in 1..n |-> IF i = n THEN last ELSE "x"]

ScenarioInput ==
    Run(Scenario.preamble, "m") \o Run(Scenario.frames[1], "e")
        \o Run(Scenario.frames[2], "e") \o Run(Scenario.frames[3], "e")

ScenarioInit ==
    /\ stream = new
    /\ cap = Scenario.cap
    /\ input = <<>>
    /\ status = "ok"
    /\ copyPc = "read" /\ copyResult = "none" /\ copyOffset = 0 /\ sent = <<>>
    /\ sendFailed = FALSE /\ eofSeen = FALSE /\ tick = 0
    /\ taskPc = "select" /\ taskResult = "none" /\ winner = "none"
    /\ child = "running" /\ killed = FALSE /\ outOpen = TRUE /\ clientGone = FALSE

WriteScenario ==
    /\ status = "ok"
    /\ cap = Scenario.cap
    /\ \E n \in ScenarioChunks :
          /\ Len(input) + n <= Len(ScenarioInput)
          /\ LET chunk == SubSeq(ScenarioInput, Len(input) + 1, Len(input) + n)
                 r == write(stream, chunk)
             IN /\ status' = r.st
                /\ stream' = IF r.st = "hung" THEN stream ELSE r.s
                /\ input' = input \o chunk
    /\ UNCHANGED <<cap, copyVars, taskVars, envVars>>

WriteSmall == cap \in CapValues /\ Write

ScenarioNext == WriteSmall \/ WriteScenario

ScenarioSpec == (Init \/ ScenarioInit) /\ [][ScenarioNext]_vars

\* ------------------------------------------------------------------ buffer claims
\* The same bytes written to a fresh Stream in one call.
Whole == write(new, input)

\* C1 (as claimed): whenever one write of the whole input returns, the chunked
\* writes have returned too and left the same preamble, the same retained frames
\* (offsets and bytes) and the same cursor.
C1_ChunkedEqualsWhole ==
    Whole.st = "ok" =>
        /\ status = "ok"
        /\ stream.preamble = Whole.s.preamble
        /\ stream.frames = Whole.s.frames
        /\ stream.offset = Whole.s.offset

\* C2 (as claimed): after a write returns, the window holds at most one frame or
\* the span from the oldest frame's first byte to the newest frame's last byte is
\* at most the cap.
C2_SpanWithinCap ==
    status = "ok" =>
        \/ Len(stream.frames) <= 1
        \/ LET newest == stream.frames[Len(stream.frames)]
               oldest == stream.frames[1]
           IN newest.offset + Len(newest.data) - oldest.offset <= cap

\* The cursor is the preamble length plus the lengths of all frames ever
\* finalized, retained or evicted; nothing else is counted.
C7_Accounting ==
    stream.offset = Len(stream.preamble) + SumLen(stream.finished)

\* C7: the cursor never decreases, and it always equals the preamble length plus
\* the lengths of all frames ever finalized (retained or evicted); pending,
\* unclassified, carried and dropped bytes are not counted.
C7_CursorAccounting ==
    /\ []C7_Accounting
    /\ [][stream'.offset >= stream.offset]_vars

\* C7 witness: a frame has been evicted and some bytes written are held but not counted.
C7_Witness ==
    /\ status = "ok"
    /\ Len(stream.finished) > Len(stream.frames)
    /\ Len(input) > stream.offset
    /\ C7_Accounting

\* Repeated read_after from `offset`, each call resuming at the returned
\* new_offset, until a call returns no data: the chunks joined, and where it stopped.
RECURSIVE read_all(_, _)
read_all(s, offset) ==
    LET r == read_after(s, offset)
    IN IF r.data = <<>> THEN [data |-> <<>>, end |-> offset]
       ELSE LET more == read_all(s, r.new_offset)
            IN [data |-> r.data \o more.data, end |-> more.end]

InRetained(s, offset) ==
    \E i \in 1..Len(s.frames) :
        s.frames[i].offset <= offset /\ offset < s.frames[i].offset + Len(s.frames[i].data)

\* C8: from any offset inside a retained frame, repeated read_after yields exactly
\* the stored bytes from that offset up to the cursor, and stops (empty data) at
\* the cursor and nowhere before.
C8_NoLossInWindow ==
    \A offset \in 0..stream.offset :
        InRetained(stream, offset) =>
            LET got == read_all(stream, offset)
            IN /\ got.end = stream.offset
               /\ got.data = Drop(Flatten(stream.frames), offset - stream.frames[1].offset)
               /\ read_after(stream, stream.offset).data = <<>>

\* C8 witness: two retained frames and a read that starts in the middle of the older.
C8_Witness ==
    /\ Len(stream.frames) >= 2
    /\ Len(stream.frames[1].data) >= 2
    /\ LET got == read_all(stream, stream.frames[1].offset + 1)
       IN got.end = stream.offset /\ Len(got.data) = stream.offset - stream.frames[1].offset - 1

\* C10: reading at the first byte of any retained frame returns that frame's
\* bytes whole, and the new offset is the frame's end: the start of the next
\* retained frame, or the cursor for the newest.
C10_CatchUpExact ==
    \A i \in 1..Len(stream.frames) :
        LET f == stream.frames[i]
            r == read_after(stream, f.offset)
        IN /\ r.data = f.data
           /\ r.new_offset = f.offset + Len(f.data)
           /\ r.new_offset = IF i < Len(stream.frames) THEN stream.frames[i + 1].offset
                             ELSE stream.offset

\* C10 witness: a window of two frames behind a preamble, read at the older frame's start.
C10_Witness ==
    /\ Len(stream.frames) >= 2
    /\ Len(stream.preamble) > 0
    /\ read_after(stream, stream.frames[1].offset).new_offset = stream.frames[2].offset

Lengths(fs) == [i \in 1..Len(fs) |-> Len(fs[i].data)]

\* C9, the rule: an offset at or past the preamble and short of the cursor that
\* lies before the oldest retained frame gets that frame whole, and the new
\* offset is that frame's end.
C9_Fallback ==
    \A off \in Len(stream.preamble)..(stream.offset - 1) :
        (Len(stream.frames) > 0 /\ off < stream.frames[1].offset) =>
            read_after(stream, off) =
                [new_offset |-> stream.frames[1].offset + Len(stream.frames[1].data),
                 data |-> stream.frames[1].data]

\* C9, the scenario: with cap 250, a 10-byte preamble and frames of 100, 200 and
\* 50 bytes finalized, the window holds the 200- and the 50-byte frame,
\* read_after(0) is the preamble with new offset 10, and read_after(10) is the
\* 200-byte frame whole with new offset 310.
ScenarioDone ==
    /\ cap = Scenario.cap
    /\ Len(stream.preamble) = Scenario.preamble
    /\ Lengths(stream.finished) = Scenario.frames

C9_Scenario ==
    ScenarioDone =>
        /\ Lengths(stream.frames) = <<200, 50>>
        /\ read_after(stream, 0) = [new_offset |-> 10, data |-> stream.preamble]
        /\ read_after(stream, 10) = [new_offset |-> 310, data |-> stream.frames[1].data]

\* C9: the stale-cursor fallback rule, and the scenario's window and reads.
C9_StaleCursorFallback == C9_Fallback /\ C9_Scenario

\* C9 witness: the scenario has run to its end and a reader left at offset 10,
\* inside the evicted 100-byte frame, is moved to 310.
C9_Witness ==
    /\ ScenarioDone
    /\ stream.frames[1].offset = 110
    /\ read_after(stream, 10).new_offset = 310
    /\ Len(read_after(stream, 10).data) = 200

\* ------------------------------------------------------------------ session claims
\* C3 (as claimed): once a read has returned EOF and the transcoder has exited,
\* with the client still connected, the copy future ends and the session task
\* completes.
C3_EofEndsSession ==
    (eofSeen /\ child # "running" /\ ~clientGone) ~> (copyPc = "done" /\ taskPc = "done")

\* C4 (as claimed): whenever the copy future is back at its read with every send
\* accepted, what it has sent is the preamble followed by every finalized frame,
\* in production order, each exactly once.
C4_CompleteDelivery ==
    (copyPc = "read" /\ ~sendFailed) =>
        sent = stream.preamble \o Flatten(stream.finished)

\* The order of the copy branch: kill, then the wait, then done with the child reaped.
C5_Order ==
    /\ winner = "copy" => (copyPc = "done" /\ taskPc \in {"kill", "await_child", "done"})
    /\ (copyPc = "done" /\ winner # "child") => winner = "copy"
    /\ (winner = "copy" /\ taskPc = "kill") => (~killed /\ child # "reaped")
    /\ (winner = "copy" /\ taskPc = "await_child") => (killed /\ child # "reaped")
    /\ (winner = "copy" /\ taskPc = "done") => (killed /\ child = "reaped")

\* C5: when the copy future resolves first (the select takes its branch), the task
\* calls kill, then awaits the child, in that order, and is not done before the
\* child has been reaped; under the runtime's fairness it gets there.
C5_TeardownCopyFirst ==
    /\ []C5_Order
    /\ (winner = "copy") ~> (killed /\ child = "reaped" /\ taskPc = "done")

\* C5 witness: the copy future ended on an error while the child ran; the task has
\* killed and reaped it.
C5_Witness ==
    /\ winner = "copy" /\ copyResult = "err" /\ ~sendFailed
    /\ taskPc = "done" /\ killed /\ child = "reaped"

\* After a failed send the copy future has ended with the error, and the task is
\* on the teardown path of whichever select branch was taken.
C6_Aborted ==
    /\ sendFailed => (copyPc = "done" /\ copyResult = "err")
    /\ (sendFailed /\ winner = "child") => child = "reaped"
    /\ (sendFailed /\ winner # "child") => winner = "copy"
    /\ (sendFailed /\ winner = "copy" /\ taskPc = "await_child") => killed
    /\ (sendFailed /\ taskPc = "done") => (child = "reaped" /\ (winner = "copy" => killed))

\* C6: after a failed send the copy future is over (no read, write or send
\* follows: the buffer and the copy future's state stay as they are), and the
\* task tears down as for any other end of the copy future: a child that had not
\* been reaped when the send failed is killed, then reaped.
C6_SendFailureAborts ==
    /\ []C6_Aborted
    /\ [][sendFailed => UNCHANGED <<bufVars, copyVars>>]_vars
    /\ sendFailed ~> (taskPc = "done" /\ child = "reaped")

\* C6 witness: a send failed while the transcoder was running; it was killed and reaped.
C6_Witness ==
    /\ sendFailed /\ winner = "copy" /\ Len(sent) > 0
    /\ taskPc = "done" /\ killed /\ child = "reaped"

\* ------------------------------------------------------------------ more session claims
IsSuffix(a, b) == Len(a) <= Len(b) /\ a = Drop(b, Len(b) - Len(a))

\* The chunk a step hands to the transport: what `sent` grew by.
ChunkSent == Drop(sent', Len(sent))

\* A chunk is aligned when it is the tail of the preamble and ends where the
\* preamble ends, or the tail of one finalized frame and ends where that frame ends.
Aligned(chunk, end) ==
    \/ end = Len(stream.preamble) /\ IsSuffix(chunk, stream.preamble)
    \/ \E i \in 1..Len(stream.finished) :
          /\ end = stream.finished[i].offset + Len(stream.finished[i].data)
          /\ IsSuffix(chunk, stream.finished[i].data)

\* C11: every chunk sent is non-empty, moves the copy future's cursor strictly
\* forward, and is the tail of the preamble or of exactly one finalized frame,
\* ending at its end; it holds no byte of a second frame nor of the frame being
\* assembled.
C11_ChunksAligned ==
    [][sent' # sent =>
          /\ Len(sent') > Len(sent) /\ Take(sent', Len(sent)) = sent
          /\ copyOffset' > copyOffset
          /\ Len(ChunkSent) <= copyOffset' - copyOffset
          /\ Aligned(ChunkSent, copyOffset')]_vars

\* C11 witness: the preamble and two frames have gone out, chunk by chunk.
C11_Witness ==
    /\ Len(stream.preamble) > 0 /\ Len(stream.finished) >= 2
    /\ copyPc = "read" /\ copyOffset = stream.offset
    /\ sent = stream.preamble \o Flatten(stream.finished)

\* C12: a kill request has been sent only if the copy future resolved before
\* the child's exit was observed; once the exit was observed first, no kill
\* request is ever sent.
C12_KillOnlyAfterCopy ==
    /\ killed => winner = "copy" /\ copyPc = "done"
    /\ winner = "child" => ~killed /\ taskPc \in {"await_copy", "done"}

\* C12 witness: the exit was observed first and the task has finished, unkilled.
C12_Witness == winner = "child" /\ taskPc = "done" /\ child = "reaped" /\ ~killed

\* ------------------------------------------------------------------ more buffer claims
\* C13: in every reachable state, read_after of any offset at or past the
\* cursor returns that same offset and no bytes, whatever the preamble and the
\* window hold.
C13_EmptyAtOrPastCursor ==
    \A off \in stream.offset..(stream.offset + MaxAhead) :
        read_after(stream, off) = [new_offset |-> off, data |-> <<>>]

\* C13 witness: a preamble and two retained frames, and a read past the cursor.
C13_Witness ==
    /\ status = "ok" /\ Len(stream.preamble) > 0 /\ Len(stream.frames) >= 2
    /\ read_after(stream, stream.offset + 1).new_offset = stream.offset + 1

\* C14: when a write has returned, the carry `undecoded` is exactly the input
\* the decoder has not consumed: the decoder has consumed each input byte at
\* most once (`eaten` counts the bytes of every update call) and the carry is
\* the input after them.
C14_CarryIsUnconsumed ==
    status = "ok" =>
        /\ stream.eaten <= Len(input)
        /\ stream.undecoded = Drop(input, stream.eaten)

\* C15: every write returns: no write is left looping in the carry branch.
C15_WriteReturns == status # "hung"

\* The consumed bytes a pre-frame metadata event can arrive with.
MetaEvents == {<<"m">>, <<"x", "m">>}

\* C16: a metadata event that arrives while no frame has been started and
\* partial_frame is empty appends the unclassified bytes `decoded` and then the
\* event's bytes to the preamble, advances the cursor by both lengths, and
\* leaves `decoded` and partial_frame empty.
C16_PreambleAbsorbsDecoded ==
    /\ status = "ok" /\ stream.decoder = "run"
    /\ Len(stream.frames) = 0 /\ Len(stream.partial_frame) = 0
    => \A data \in MetaEvents :
            LET s2 == add_to_preamble(stream, data)
            IN /\ s2.preamble = stream.preamble \o stream.decoded \o data
               /\ s2.offset = stream.offset + Len(stream.decoded) + Len(data)
               /\ s2.decoded = <<>>
               /\ s2.partial_frame = <<>>

\* The preamble, the cursor, the window and the frame being assembled.
Layout(s) == <<s.preamble, s.offset, s.frames, s.partial_frame>>

\* A metadata event is late once frame data has begun.
Late(s) == Len(s.frames) > 0 \/ Len(s.partial_frame) > 0

C17_LateEventDropped ==
    status = "ok" /\ Late(stream) =>
        /\ \A data \in MetaEvents :
              Layout(add_to_preamble(stream, data)) = Layout(stream)
        /\ stream.undecoded = <<>> /\ stream.decoder = "run" =>
              LET r == write(stream, <<"m">>)
              IN r.st = "ok" /\ Layout(r.s) = Layout(stream)

C17_PreambleFrozen ==
    [][Len(stream.finished) > 0 => stream'.preamble = stream.preamble]_vars

EndOf(blob) == blob.offset + Len(blob.data)

\* C18: the retained frames are in order of strictly increasing offset, each
\* starts where the one before it ends, the newest ends at the cursor, and the
\* first frame ever finalized starts at the preamble's length.
C18_WindowContiguous ==
    LET fs == stream.frames
    IN /\ \A i \in 1..(Len(fs) - 1) :
             /\ fs[i].offset < fs[i + 1].offset
             /\ fs[i + 1].offset = EndOf(fs[i])
       /\ Len(fs) > 0 => EndOf(fs[Len(fs)]) = stream.offset
       /\ Len(stream.finished) > 0 =>
             stream.finished[1].offset = Len(stream.preamble)

\* C18 witness: a preamble, an evicted frame and two retained frames.
C18_Witness ==
    /\ Len(stream.preamble) > 0
    /\ Len(stream.frames) >= 2 /\ Len(stream.finished) > Len(stream.frames)

\* The newest n Blobs ever finalized.
Newest(n) == Drop(stream.finished, Len(stream.finished) - n)

\* C19: eviction removes frames from the oldest end only and never the frame
\* just finalized, however large: the window is the newest part of all frames
\* ever finalized, offsets and bytes unchanged, and is never empty once a frame
\* has been finalized; a finalization moves the cursor by the frame's length
\* and leaves the preamble alone, whatever was evicted.
C19_EvictionOldestOnly ==
    /\ Len(stream.frames) <= Len(stream.finished)
    /\ stream.frames = Newest(Len(stream.frames))
    /\ Len(stream.finished) > 0 => Len(stream.frames) > 0
    /\ \A data \in {<<"e">>, <<"x", "e">>} :
          LET s2 == finish_frame(add_to_frame(stream, data))
              kept == Len(s2.frames) - 1
          IN /\ kept >= 0 /\ kept <= Len(stream.frames)
             /\ s2.frames = Drop(stream.frames, Len(stream.frames) - kept)
                               \o <<[offset |-> stream.offset,
                                     data |-> stream.partial_frame \o stream.decoded \o data]>>
             /\ s2.preamble = stream.preamble
             /\ s2.offset = EndOf(s2.frames[Len(s2.frames)])

\* C19 witness: an older frame has been evicted, the newest is retained.
C19_Witness ==
    /\ Len(stream.finished) > Len(stream.frames)
    /\ stream.frames[Len(stream.frames)] = stream.finished[Len(stream.finished)]

Max(a, b) == IF a >= b THEN a ELSE b

\* C20: for every cursor value a caller may hold, read_after returns a new
\* offset between that value and the larger of it and the stream's cursor; the
\* copy future's cursor never passes the stream's, and whenever the inner loop
\* has ended and the future is back at its read, the two cursors are equal.
C20_DrainReachesCursor ==
    /\ \A off \in 0..(stream.offset + MaxAhead) :
          LET r == read_after(stream, off)
          IN off <= r.new_offset /\ r.new_offset <= Max(off, stream.offset)
    /\ copyOffset <= stream.offset
    /\ copyPc = "read" => copyOffset = stream.offset

\* C20 witness: the inner loop has ended after a write that finalized a frame
\* and evicted an older one.
C20_Witness ==
    /\ copyPc = "read" /\ ~sendFailed /\ copyOffset = stream.offset
    /\ Len(stream.frames) > 0 /\ Len(stream.finished) > Len(stream.frames)

====
